---- MODULE Spec2Model ----
(***************************************************************************)
(* StrokeVision identity and access security core: the per-account        *)
(* lockout state machine driven by the login view, the AuthShield access  *)
(* guard, and the patient identifier generator.                           *)
(*                                                                         *)
(* Persisted account rows live in `users`.  A login request is a sequence *)
(* of database round trips; each action below is one round trip together  *)
(* with the in-memory code of the view that leads up to it.  The ORM      *)
(* object a request holds (`obj`), the values it was loaded with (`orig`) *)
(* and its expired-after-commit flag are explicit, because a commit       *)
(* writes exactly the attributes that differ from the loaded values.      *)
(***************************************************************************)
EXTENDS Integers, Sequences, FiniteSets, Bags, TLC

(* ------------------------------------------------------------------ *)
(* Configuration and bounds                                            *)
(* ------------------------------------------------------------------ *)

\* app.config["ACCOUNT_LOCKOUT_ATTEMPTS"], the threshold T
ACCOUNT_LOCKOUT_ATTEMPTS == 5

\* app.config["ACCOUNT_LOCKOUT_PERIOD_SECONDS"], the period P
ACCOUNT_LOCKOUT_PERIOD_SECONDS == 900

\* Clock resolution: the clock counts 1/UnitsPerSecond of a second, so that
\* the truncation in locked_for_seconds is not the identity.
UnitsPerSecond == 2

\* How many times the clock advances in a behaviour.
MaxTicks == 2

\* Commits fail only while the account's counter is at most this
MaxFaultyCounter == 5

\* max_attempts of generate_patient_id
MaxIdAttempts == 5

\* A null DateTime column
NoTime == -1

\* No row / anonymous user
NoUser == 0

\* The lockout period in clock units
PeriodUnits == ACCOUNT_LOCKOUT_PERIOD_SECONDS * UnitsPerSecond

\* The clock advances by the smallest unit or by just under the period.
TickSteps == {1, PeriodUnits - 1}

Clients == {"c1", "c2"}

Roles == {"Admin", "Doctor", "Nurse"}

\* What a login form may carry
FormEmails == {"Doc@x.org", "ghost@x.org"}

GoodPassword == "TestPass123!"

FormPasswords == {GoodPassword, "WrongPassword123!"}

\* Dates datetime.now() may show while identifiers are generated
Dates == {<<2025, 12, 31>>, <<2026, 1, 1>>}

\* Values random.randint(0, 9999) may draw
RandomDraws == {7, 9999}

\* The date while creations run in parallel
ConcDates == {<<2026, 1, 1>>}

\* os.getenv("AES_SECRET_KEY"): unset, not a Fernet key, a Fernet key
NoKey == ""

MalformedKey == "not-a-fernet-key"

ValidKey == "k1"

EnvKeys == {NoKey, MalformedKey, ValidKey}

\* _cipher = None
NoCipher == ""

\* The random part of a Fernet token (IV and timestamp)
Nonces == {"n1", "n2"}

\* The leading characters of every Fernet token
FernetVersion == "gAAAAA"

\* Scalars handed to the codec: integers, floats as <<m, d>> for m / 10^d,
\* strings as sequences of characters
IntInputs == {0, 55, -7}

FloatInputs == {<<385, 1>>, <<30, 1>>, <<5, 2>>}

StrInputs == {<<"M", "a", "l", "e">>, <<"3", "8", ".", "5">>, <<"5", "5">>, <<>>}

\* Strings that are no ciphertext of this codec: a token under another key
\* and a token whose signature does not verify
BadTokens == {<<"gAAAAA", "k2", "n1", "5", "5">>, <<"gAAAAA", "k1", "forged", "5", "5">>}

\* request.path of the requests to handlers wrapped by require_role
GuardPaths == {"/admin/api/users", "/patient/delete"}

\* str(e) of the exceptions a database operation or its commit raises
DbErrors == {"(sqlite3.OperationalError) database is locked"}

\* No exception
NoError == ""

\* Attribute assignments an operation makes on an account row
TxChanges == {[field |-> "role", value |-> "Nurse"],
              [field |-> "email", value |-> "new@x.org"]}

\* Addresses a profile update may carry
ProfileEmails == {"new@x.org", "nurse@x.org"}

MsgTxError == <<"A secure transaction error occurred.">>

MsgServerError == <<"Internal Server Error">>

MsgProfileUpdated == <<"Profile updated successfully.">>

MsgEmailInUse == <<"Email already in use by another account.">>

\* app.config["ADMIN_INVITE_CODE"]: unset, or the configured code
NoCode == ""

InviteCode == "invite-1"

\* What the admin_code field of a registration form may carry
FormCodes == {NoCode, InviteCode, "guess"}

\* Addresses a registration form may carry
RegEmails == {"Nurse@x.org", "new@x.org", "adm@x.org"}

\* Addresses an email update may carry
AccountEmails == {"new@x.org", "Nurse@x.org", "nurse@x.org"}

\* Flash messages of the registration view
MsgNeedCode == "Admin registration requires a valid invite code."

MsgAdminExists == "Admin account already exists."

MsgRegistered == "This email is already registered."

MsgRegFailed == "Registration failed. Please try again."

\* JSON messages of the admin's email updates
MsgAdminRequired == <<"Admin privileges required">>

MsgUserNotFound == <<"User not found.">>

MsgUserEmailUpdated == <<"User email updated.">>

MsgEmailInUseShort == <<"Email already in use.">>

MsgEmailUpdated == <<"Email updated.">>

MsgInternal == <<"Internal server error.">>

\* Flash messages of the login view and JSON messages of the guard
MsgInvalid == "Invalid email or password."

MsgLockedNow == "Account locked due to failed attempts."

MsgLocked == "Account locked. Contact an admin to unlock."

MsgAlready == "You are already logged in."

MsgSessionLocked == "Account is locked."

MsgDenied == "Access denied: Insufficient privileges."

\* The message of the application's handler for status 500
MsgUnexpected == "An unexpected error occurred"

\* JSON messages of the patient views
MsgListNoAjax == "Unauthorized access to API view"

MsgOnlyAdmins == "Unauthorized: Only admins can delete records"

MsgDeleteError == "Error deleting patient: 'User' object has no attribute 'username'"

MsgNoPatient == "Patient not found"

MsgDeleted == "Patient record deleted successfully"

\* Addresses with which a client signs in before it calls a view
ViewEmails == {"Doc@x.org", "Nurse@x.org"}

(* ------------------------------------------------------------------ *)
(* State                                                               *)
(* ------------------------------------------------------------------ *)

VARIABLES
    now,        \* utcnow(), in clock units
    ticks,      \* how often the clock advanced
    users,      \* the users table: id -> row
    session,    \* client -> the user id its session carries, or NoUser
    req,        \* client -> its login request in flight
    lastResp,   \* the last response sent
    fails,      \* history: completed failed attempts since the account was last reset
    threaded,   \* whether the server handles requests in parallel
    lockedMid,  \* history: the client's session account was locked since its last request
    patients,   \* the patients collection: a bag of documents
    gen,        \* client -> its patient creation in flight: its place in generate_patient_id
    lastGen,    \* the outcome of the last patient creation
    codec,      \* AESCipher: the environment's key, _instance and _cipher
    codecOut,   \* the last call of the codec: its argument and its outcome
    guardOut,   \* the last call of a handler wrapped by require_role
    tx,         \* the SQLAlchemy session of the request in flight
    txOut       \* the outcome of the last operation that commits to the database

\* The patient store, which the account side never touches
idvars == <<patients, gen, lastGen>>

\* The account side, which patient creation never touches
authvars == <<now, ticks, users, session, req, lastResp, fails, threaded, lockedMid>>

\* The codec
codecvars == <<codec, codecOut>>

\* Calls of the guard's decorators and of the views that commit
guardvars == <<guardOut, tx, txOut>>

sidevars == <<codecvars, guardvars>>

vars == <<authvars, idvars, sidevars>>

(* ------------------------------------------------------------------ *)
(* Pure helpers                                                        *)
(* ------------------------------------------------------------------ *)

\* str.lower() on the addresses of this model
Lower(e) ==
    CASE e = "Doc@x.org" -> "doc@x.org"
      [] e = "Nurse@x.org" -> "nurse@x.org"
      [] OTHER -> e

\* bcrypt.generate_password_hash
Hash(pw) == <<"bcrypt", pw>>

\* User(...) as registration creates it
NewUser(email, role, pw) ==
    [email |-> Lower(email), role |-> role, password |-> Hash(pw),
     failed_login_attempts |-> 0, last_failed_login |-> NoTime,
     is_locked |-> FALSE, locked_at |-> NoTime]

\* The object of a request that found no user, or whose attributes are expired
BlankObj == NewUser("", "", "")

CheckPassword(o, pw) == o.password = Hash(pw)

\* A reset that forgets the timestamp
ResetKeepsStamp(o) == [o EXCEPT !.failed_login_attempts = 0]

\* An unlock that forgets the lock timestamp
UnlockKeepsStamp(o) == [o EXCEPT !.is_locked = FALSE, !.failed_login_attempts = 0,
                                   !.last_failed_login = NoTime]

\* Seconds since the lock, rounded to the nearest second instead of truncated
LockedForSecondsRounded(o, t) ==
    IF ~o.is_locked \/ o.locked_at = NoTime
    THEN 0
    ELSE (t - o.locked_at + (UnitsPerSecond \div 2)) \div UnitsPerSecond

IncrementFailedAttempts(o, t) ==
    [o EXCEPT !.failed_login_attempts = @ + 1, !.last_failed_login = t]

ResetFailedAttempts(o) ==
    [o EXCEPT !.failed_login_attempts = 0, !.last_failed_login = NoTime]

Lock(o, t) == [o EXCEPT !.is_locked = TRUE, !.locked_at = t]

Unlock(o) == ResetFailedAttempts([o EXCEPT !.is_locked = FALSE, !.locked_at = NoTime])

LockedForSeconds(o, t) ==
    IF ~o.is_locked \/ o.locked_at = NoTime
    THEN 0
    ELSE (t - o.locked_at) \div UnitsPerSecond

\* db.session.commit(): the UPDATE sets the attributes whose value differs
\* from the loaded one
Flush(row, orig, obj) ==
    [f \in DOMAIN row |-> IF obj[f] # orig[f] THEN obj[f] ELSE row[f]]

\* User.query.filter(func.lower(User.email) == email).first()
FindUser(email) ==
    LET hits == {u \in DOMAIN users : Lower(users[u].email) = email}
    IN IF hits = {} THEN NoUser ELSE CHOOSE u \in hits : \A v \in hits : u <= v

\* login_manager.user_loader
LoadUser(uid) == IF uid \in DOMAIN users THEN uid ELSE NoUser

CurrentUser(c) == LoadUser(session[c])

\* The threshold reached one attempt early
ReachedThresholdEarly(o) == o.failed_login_attempts >= ACCOUNT_LOCKOUT_ATTEMPTS - 1

\* The threshold compared with > instead of >=
ReachedThresholdStrict(o) == o.failed_login_attempts > ACCOUNT_LOCKOUT_ATTEMPTS

\* The period compared with > instead of >=
PeriodElapsedStrict(o, t) == LockedForSeconds(o, t) > ACCOUNT_LOCKOUT_PERIOD_SECONDS

\* The failed attempt counter has reached the threshold
ReachedThreshold(o) == o.failed_login_attempts >= ACCOUNT_LOCKOUT_ATTEMPTS

\* The lockout period has elapsed
PeriodElapsed(o, t) == LockedForSeconds(o, t) >= ACCOUNT_LOCKOUT_PERIOD_SECONDS

IdleReq ==
    [pc |-> "idle", email |-> "", password |-> "", uid |-> NoUser,
     obj |-> BlankObj, orig |-> BlankObj, expired |-> FALSE,
     compared |-> FALSE, unlocked |-> FALSE, prior |-> 0]

\* A response, with what the request that it answers went through
Resp(route, status, msg, r) ==
    [route |-> route, status |-> status, message |-> msg,
     uid |-> r.uid, password |-> r.password, compared |-> r.compared,
     unlocked |-> r.unlocked, prior |-> r.prior]

\* Python values: None, int, float and str
PyNone == [t |-> "none", v |-> <<>>]

PyInt(i) == [t |-> "int", v |-> i]

PyFloat(f) == [t |-> "float", v |-> f]

PyStr(chars) == [t |-> "str", v |-> chars]

\* No codec call yet
IdleCodecOut ==
    [op |-> "none", field |-> "", arg |-> PyNone, result |-> PyNone,
     raised |-> "", origin |-> PyNone, produced |-> FALSE]

\* No guarded handler called yet
IdleGuard ==
    [status |-> 0, handlerRuns |-> 0, roleRead |-> FALSE, log |-> <<>>,
     logFailed |-> FALSE, uid |-> NoUser, roles |-> {}, path |-> ""]

\* A session with nothing pending
IdleTx == [pc |-> "idle", uid |-> NoUser, pending |-> <<>>, raised |-> "", runs |-> 0]

\* No committing operation answered yet
IdleTxOut ==
    [view |-> "", status |-> 0, message |-> <<>>, log |-> <<>>, logFailed |-> FALSE,
     printed |-> <<>>, runs |-> 0, error |-> ""]

(* ------------------------------------------------------------------ *)
(* Initial state                                                       *)
(* ------------------------------------------------------------------ *)

InitState ==
    /\ now = 0
    /\ ticks = 0
    /\ \E role \in Roles :
          users = (1 :> NewUser("doc@x.org", role, GoodPassword))
               @@ (2 :> NewUser("nurse@x.org", "Nurse", GoodPassword))
    /\ session = [c \in Clients |-> NoUser]
    /\ req = [c \in Clients |-> IdleReq]
    /\ lastResp = Resp("none", 0, "", IdleReq)
    /\ fails = [u \in {1, 2} |-> 0]
    /\ lockedMid = [c \in Clients |-> FALSE]
    /\ patients = EmptyBag
    /\ gen = [c \in Clients |->
                [pc |-> "idle", attempt |-> 0, lookups |-> 0, tried |-> <<>>, id |-> <<>>]]
    /\ lastGen = [ok |-> FALSE, id |-> <<>>, attempts |-> 0, lookups |-> 0, status |-> 0,
                  message |-> <<>>]
    /\ guardOut = IdleGuard
    /\ tx = IdleTx
    /\ txOut = IdleTxOut

\* The application is running: cipher_suite was constructed on import
CodecLoaded ==
    /\ codec = [env |-> ValidKey, instance |-> TRUE, cipher |-> ValidKey]
    /\ codecOut = IdleCodecOut

\* One request at a time
Init == InitState /\ CodecLoaded /\ threaded = FALSE

\* Requests in parallel, as under the threaded server
InitConc == InitState /\ CodecLoaded /\ threaded = TRUE /\ users[1].role = "Doctor"

(* ------------------------------------------------------------------ *)
(* The clock                                                           *)
(* ------------------------------------------------------------------ *)

Tick ==
    /\ ticks < MaxTicks
    /\ \E d \in TickSteps : now' = now + d
    /\ ticks' = ticks + 1
    /\ UNCHANGED <<threaded, idvars, sidevars, lockedMid, users, session, req, lastResp, fails>>

\* Client c's request may take a step: always under the threaded server,
\* otherwise only while no other request is in flight
MayStep(c) == threaded \/ \A d \in Clients \ {c} : req[d].pc = "idle"

(* ------------------------------------------------------------------ *)
(* Access guard                                                        *)
(* ------------------------------------------------------------------ *)

\* The hook not looking at the lock flag
ValidateSessionNever(c) == FALSE

\* The role check letting every authenticated principal through
RequireRoleAnyone(cu, R) == IF cu = NoUser THEN 401 ELSE 200

\* AuthShield.validate_session: the session's principal is locked
ValidateSessionDenies(c) ==
    /\ CurrentUser(c) # NoUser
    /\ users[CurrentUser(c)].is_locked

\* AuthShield.require_role(R) for principal cu
RequireRole(cu, R) ==
    IF cu = NoUser THEN 401
    ELSE IF users[cu].role \notin R THEN 403
    ELSE 200

\* The before_request hook found the session's account locked: logout_user()
\* and the 403 "Account is locked."  No route code runs.
SessionTerminated(c, route) ==
    /\ session' = [session EXCEPT ![c] = NoUser]
    /\ lastResp' = Resp(route, 403, MsgSessionLocked, IdleReq)
    /\ lockedMid' = [lockedMid EXCEPT ![c] = FALSE]
    /\ UNCHANGED <<threaded, idvars, sidevars, now, ticks, users, req, fails>>

\* A request to a handler protected by require_role(R); status 200 stands
\* for the handler having run.
ProtectedRequest(c, R) ==
    /\ MayStep(c)
    /\ req[c].pc = "idle"
    /\ IF ValidateSessionDenies(c)
       THEN SessionTerminated(c, "protected")
       ELSE /\ lastResp' = Resp("protected", RequireRole(CurrentUser(c), R),
                                IF RequireRole(CurrentUser(c), R) = 403
                                THEN MsgDenied ELSE "",
                                [IdleReq EXCEPT !.uid = CurrentUser(c)])
            /\ lockedMid' = [lockedMid EXCEPT ![c] = FALSE]
            /\ UNCHANGED <<threaded, idvars, sidevars, now, ticks, users, session, req, fails>>

\* /auth/logout
Logout(c) ==
    /\ MayStep(c)
    /\ req[c].pc = "idle"
    /\ session[c] # NoUser
    /\ IF ValidateSessionDenies(c)
       THEN SessionTerminated(c, "logout")
       ELSE /\ session' = [session EXCEPT ![c] = NoUser]
            /\ lastResp' = Resp("logout", 302, "", IdleReq)
            /\ lockedMid' = [lockedMid EXCEPT ![c] = FALSE]
            /\ UNCHANGED <<threaded, idvars, sidevars, now, ticks, users, req, fails>>

(* ------------------------------------------------------------------ *)
(* The login view                                                      *)
(* ------------------------------------------------------------------ *)

\* History: account u goes from unlocked to locked in this step; every client
\* whose session carries u is marked
BecameLocked(u) ==
    [d \in Clients |->
        IF session[d] = u /\ ~users[u].is_locked /\ users'[u].is_locked
        THEN TRUE ELSE lockedMid[d]]

\* The response of a login request, which ends the request
LoginResponds(c, status, msg) ==
    /\ lastResp' = Resp("login", status, msg, req[c])
    /\ req' = [req EXCEPT ![c] = IdleReq]

\* POST /auth/login up to the query of the account row
LoginQuery(c, email, pw) ==
    /\ MayStep(c)
    /\ req[c].pc = "idle"
    /\ IF ValidateSessionDenies(c)
       THEN SessionTerminated(c, "login")
       ELSE IF CurrentUser(c) # NoUser
       THEN /\ lastResp' = Resp("login", 302, MsgAlready, IdleReq)
            /\ lockedMid' = [lockedMid EXCEPT ![c] = FALSE]
            /\ UNCHANGED <<threaded, idvars, sidevars, now, ticks, users, session, req, fails>>
       ELSE LET uid == FindUser(Lower(email))
                row == IF uid = NoUser THEN BlankObj ELSE users[uid]
            IN /\ req' = [req EXCEPT ![c] =
                            [IdleReq EXCEPT !.pc = "lockcheck", !.email = Lower(email),
                                            !.password = pw, !.uid = uid,
                                            !.obj = row, !.orig = row,
                                            !.prior = row.failed_login_attempts]]
               /\ lockedMid' = [lockedMid EXCEPT ![c] = FALSE]
               /\ UNCHANGED <<threaded, idvars, sidevars, now, ticks, users, session, lastResp, fails>>

\* A lock check whose rejection stamps the lock anew
LoginLockCheckRestamps(c) ==
    LET r == req[c] IN
    /\ MayStep(c)
    /\ r.pc = "lockcheck"
    /\ IF r.uid # NoUser /\ r.obj.is_locked
       THEN IF PeriodElapsed(r.obj, now)
            THEN /\ users' = [users EXCEPT ![r.uid] = Flush(@, r.orig, Unlock(r.obj))]
                 /\ req' = [req EXCEPT ![c].pc = "creds", ![c].obj = BlankObj,
                                       ![c].orig = BlankObj, ![c].expired = TRUE,
                                       ![c].unlocked = TRUE]
                 /\ fails' = [fails EXCEPT ![r.uid] = 0]
                 /\ UNCHANGED <<threaded, idvars, sidevars, lockedMid, now, ticks, session, lastResp>>
            ELSE /\ LoginResponds(c, 200, MsgLocked)
                 /\ users' = [users EXCEPT ![r.uid] = Flush(@, r.orig, Lock(r.obj, now))]
                 /\ UNCHANGED <<threaded, idvars, sidevars, lockedMid, now, ticks, session, fails>>
       ELSE /\ req' = [req EXCEPT ![c].pc = "creds"]
            /\ UNCHANGED <<threaded, idvars, sidevars, lockedMid, now, ticks, users, session, lastResp, fails>>

\* 1. Check if user is locked out; auto-unlock when the period has elapsed
LoginLockCheck(c) ==
    LET r == req[c] IN
    /\ MayStep(c)
    /\ r.pc = "lockcheck"
    /\ IF r.uid # NoUser /\ r.obj.is_locked
       THEN IF PeriodElapsed(r.obj, now)
            THEN /\ users' = [users EXCEPT ![r.uid] = Flush(@, r.orig, Unlock(r.obj))]
                 /\ req' = [req EXCEPT ![c].pc = "creds", ![c].obj = BlankObj,
                                       ![c].orig = BlankObj, ![c].expired = TRUE,
                                       ![c].unlocked = TRUE]
                 /\ fails' = [fails EXCEPT ![r.uid] = 0]
                 /\ UNCHANGED <<threaded, idvars, sidevars, lockedMid, now, ticks, session, lastResp>>
            ELSE /\ LoginResponds(c, 200, MsgLocked)
                 /\ UNCHANGED <<threaded, idvars, sidevars, lockedMid, now, ticks, users, session, fails>>
       ELSE /\ req' = [req EXCEPT ![c].pc = "creds"]
            /\ UNCHANGED <<threaded, idvars, sidevars, lockedMid, now, ticks, users, session, lastResp, fails>>

\* 2. Check credentials; an expired object is refreshed from its row first
LoginCheckCredentials(c) ==
    LET r == req[c] IN
    /\ MayStep(c)
    /\ r.pc = "creds"
    /\ IF r.uid = NoUser
       THEN /\ LoginResponds(c, 200, MsgInvalid)
            /\ UNCHANGED <<threaded, idvars, sidevars, lockedMid, now, ticks, users, session, fails>>
       ELSE LET o == IF r.expired THEN users[r.uid] ELSE r.obj
                orig == IF r.expired THEN users[r.uid] ELSE r.orig
            IN /\ req' = [req EXCEPT ![c].pc = IF CheckPassword(o, r.password)
                                               THEN "success" ELSE "failure",
                                     ![c].obj = o, ![c].orig = orig,
                                     ![c].expired = FALSE, ![c].compared = TRUE,
                                     ![c].prior = o.failed_login_attempts]
               /\ UNCHANGED <<threaded, idvars, sidevars, lockedMid, now, ticks, users, session, lastResp, fails>>

\* Success: reset_failed_attempts(), login_user()
LoginSuccess(c) ==
    LET r == req[c] IN
    /\ MayStep(c)
    /\ r.pc = "success"
    /\ users' = [users EXCEPT ![r.uid] = Flush(@, r.orig, ResetFailedAttempts(r.obj))]
    /\ session' = [session EXCEPT ![c] = r.uid]
    /\ fails' = [fails EXCEPT ![r.uid] = 0]
    /\ LoginResponds(c, 302, "")
    /\ UNCHANGED <<threaded, idvars, sidevars, lockedMid, now, ticks>>

\* 3. Failure: increment_failed_attempts()
LoginRecordFailure(c) ==
    LET r == req[c] IN
    /\ MayStep(c)
    /\ r.pc = "failure"
    /\ users' = [users EXCEPT ![r.uid] =
                    Flush(@, r.orig, IncrementFailedAttempts(r.obj, now))]
    /\ req' = [req EXCEPT ![c].pc = "threshold", ![c].obj = BlankObj,
                          ![c].orig = BlankObj, ![c].expired = TRUE]
    /\ UNCHANGED <<threaded, idvars, sidevars, lockedMid, now, ticks, session, lastResp, fails>>

\* user.failed_login_attempts >= max_attempts, read back after the commit
LoginThreshold(c) ==
    LET r == req[c]
        o == users[r.uid]
    IN
    /\ MayStep(c)
    /\ r.pc = "threshold"
    /\ IF ReachedThreshold(o)
       THEN /\ req' = [req EXCEPT ![c].pc = "lock", ![c].obj = o, ![c].orig = o,
                                  ![c].expired = FALSE]
            /\ UNCHANGED <<threaded, idvars, sidevars, lockedMid, now, ticks, users, session, lastResp, fails>>
       ELSE /\ LoginResponds(c, 200, MsgInvalid)
            /\ fails' = [fails EXCEPT ![r.uid] = @ + 1]
            /\ UNCHANGED <<threaded, idvars, sidevars, lockedMid, now, ticks, users, session>>

\* user.lock() and the "locked due to failed attempts" response
LoginLock(c) ==
    LET r == req[c] IN
    /\ MayStep(c)
    /\ r.pc = "lock"
    /\ users' = [users EXCEPT ![r.uid] = Flush(@, r.orig, Lock(r.obj, now))]
    /\ fails' = [fails EXCEPT ![r.uid] = @ + 1]
    /\ lockedMid' = BecameLocked(r.uid)
    /\ LoginResponds(c, 200, MsgLockedNow)
    /\ UNCHANGED <<threaded, idvars, sidevars, now, ticks, session>>

\* db.session.commit() raises inside reset_failed_attempts(),
\* increment_failed_attempts() or lock(): the view catches nothing, so the
\* exception ends the request with the server error, which carries the
\* exception's text under app.run(debug=True) and the 500 handler's message
\* otherwise; the session's changes are discarded with the session
LoginCommitFails(c, e) ==
    LET r == req[c] IN
    /\ MayStep(c)
    /\ r.pc \in {"success", "failure", "lock"}
    /\ r.obj.failed_login_attempts <= MaxFaultyCounter
    /\ \E msg \in {e, MsgUnexpected} : LoginResponds(c, 500, msg)
    /\ UNCHANGED <<threaded, idvars, sidevars, lockedMid, now, ticks, users, session, fails>>

(* ------------------------------------------------------------------ *)
(* Direct calls of the account model's lock() and unlock()             *)
(* ------------------------------------------------------------------ *)

Quiescent == \A c \in Clients : req[c].pc = "idle"

\* user.lock() on a freshly loaded account
LockCall(u) ==
    /\ Quiescent
    /\ users' = [users EXCEPT ![u] = Flush(@, @, Lock(@, now))]
    /\ lockedMid' = BecameLocked(u)
    /\ UNCHANGED <<threaded, idvars, sidevars, now, ticks, session, req, lastResp, fails>>

\* user.unlock() on a freshly loaded account
UnlockCall(u) ==
    /\ Quiescent
    /\ users' = [users EXCEPT ![u] = Flush(@, @, Unlock(@))]
    /\ fails' = [fails EXCEPT ![u] = 0]
    /\ UNCHANGED <<threaded, idvars, sidevars, lockedMid, now, ticks, session, req, lastResp>>

(* ------------------------------------------------------------------ *)
(* Patient identifiers                                                 *)
(* ------------------------------------------------------------------ *)

\* str(n).zfill(2), as digits
ZFill2(n) == <<(n \div 10) % 10, n % 10>>

\* str(n).zfill(4), as digits
ZFill4(n) == <<(n \div 1000) % 10, (n \div 100) % 10, (n \div 10) % 10, n % 10>>

\* The candidate of one attempt: last digit of the year, month, day, and the
\* random sequence; cand is <<date, draw>>
MakeId(cand) ==
    <<cand[1][1] % 10>> \o ZFill2(cand[1][2]) \o ZFill2(cand[1][3]) \o ZFill4(cand[2])

\* int(patient_id[a:b]) for a two-digit slice starting at position a (1-based)
Int2(id, a) == 10 * id[a] + id[a + 1]

\* IDGenerator.check_patient_id: the identifier is not in the collection
CheckPatientId(id, stored) == id \notin stored

\* IDGenerator.validate_patient_id, with the number of existence lookups made
ValidatePatientId(id, stored) ==
    IF Len(id) = 0 THEN [valid |-> FALSE, lookups |-> 0]
    ELSE IF Len(id) # 9 \/ \E i \in 1..Len(id) : id[i] \notin 0..9
    THEN [valid |-> FALSE, lookups |-> 0]
    ELSE IF Int2(id, 2) < 1 \/ Int2(id, 2) > 12 THEN [valid |-> FALSE, lookups |-> 0]
    ELSE IF Int2(id, 4) < 1 \/ Int2(id, 4) > 31 THEN [valid |-> FALSE, lookups |-> 0]
    ELSE [valid |-> CheckPatientId(id, stored), lookups |-> 1]

\* The loop counter is still in range(max_attempts), tested with <=
MoreAttemptsInclusive(attempt) == attempt <= MaxIdAttempts

\* for attempt in range(max_attempts)
MoreAttempts(attempt) == attempt < MaxIdAttempts

IdleGen == [pc |-> "idle", attempt |-> 0, lookups |-> 0, tried |-> <<>>, id |-> <<>>]

\* The patient_id values of the documents of the collection
StoredIds == {d.patient_id : d \in BagToSet(patients)}

\* Patient(patient_id=..., created_by=...)
NewPatient(id, c) == [patient_id |-> id, created_by |-> c]

\* str(e) of the exceptions the creation of a patient raises
ErrExhausted == "Failed to generate a valid patient ID after maximum attempts."

ErrDuplicate == "Tried to save duplicate unique keys (E11000 duplicate key error)"

\* f"Error saving/updating patient data: {str(e)}"
SaveErrorMessage(e) == <<"Error saving/updating patient data: ", e>>

MsgSaved == <<"Patient data saved successfully">>

\* A collection without the unique index on patient_id
UniqueIndexAbsent(id, stored) == TRUE

\* The unique index on patient_id lets a document with this identifier in
UniqueIndexAdmits(id, stored) == id \notin stored

\* Client c's creation may take a step: always under the threaded server,
\* otherwise only while no other creation is in flight
MayCreate(c) == threaded \/ \A d \in Clients \ {c} : gen[d].pc = "idle"

\* predict_risk reaches the creation of a new patient and calls
\* generate_patient_id
BeginCreate(c) ==
    /\ MayCreate(c)
    /\ gen[c].pc = "idle"
    /\ gen' = [gen EXCEPT ![c] = [IdleGen EXCEPT !.pc = "loop"]]
    /\ UNCHANGED <<authvars, sidevars, patients, lastGen>>

\* One pass of the loop: the candidate is built from the date and the draw
\* and validated; a valid one is returned
GenAttempt(c, cand) ==
    LET id == MakeId(cand)
        v == ValidatePatientId(id, StoredIds)
    IN
    /\ MayCreate(c)
    /\ gen[c].pc = "loop"
    /\ MoreAttempts(gen[c].attempt)
    /\ gen' = [gen EXCEPT ![c] =
                 [@ EXCEPT !.pc = IF v.valid THEN "save" ELSE "loop",
                           !.attempt = IF v.valid THEN @ ELSE @ + 1,
                           !.lookups = @ + v.lookups,
                           !.tried = id,
                           !.id = IF v.valid THEN id ELSE <<>>]]
    /\ UNCHANGED <<authvars, sidevars, patients, lastGen>>

\* The loop has run out: ValueError, which predict_risk answers with 500
GenExhausted(c) ==
    /\ MayCreate(c)
    /\ gen[c].pc = "loop"
    /\ ~MoreAttempts(gen[c].attempt)
    /\ lastGen' = [ok |-> FALSE, id |-> <<>>, attempts |-> gen[c].attempt,
                   lookups |-> gen[c].lookups, status |-> 500,
                   message |-> SaveErrorMessage(ErrExhausted)]
    /\ gen' = [gen EXCEPT ![c] = IdleGen]
    /\ UNCHANGED <<authvars, sidevars, patients>>

\* new_patient.save() with the identifier returned: the insert, which the
\* unique index refuses for an identifier already stored (NotUniqueError,
\* answered with 500), and otherwise the 200 response
SavePatient(c) ==
    /\ MayCreate(c)
    /\ gen[c].pc = "save"
    /\ IF UniqueIndexAdmits(gen[c].id, StoredIds)
       THEN /\ patients' = patients (+) SetToBag({NewPatient(gen[c].id, c)})
            /\ lastGen' = [ok |-> TRUE, id |-> gen[c].id, attempts |-> gen[c].attempt + 1,
                           lookups |-> gen[c].lookups, status |-> 200,
                           message |-> MsgSaved]
       ELSE /\ patients' = patients
            /\ lastGen' = [ok |-> FALSE, id |-> gen[c].id, attempts |-> gen[c].attempt + 1,
                           lookups |-> gen[c].lookups, status |-> 500,
                           message |-> SaveErrorMessage(ErrDuplicate)]
    /\ gen' = [gen EXCEPT ![c] = IdleGen]
    /\ UNCHANGED <<authvars, sidevars>>

\* patient.delete() on document d of the collection
DeletePatient(d) ==
    /\ BagIn(d, patients)
    /\ threaded \/ \A c \in Clients : gen[c].pc = "idle"
    /\ patients' = patients (-) SetToBag({d})
    /\ UNCHANGED <<authvars, sidevars, gen, lastGen>>

(* ------------------------------------------------------------------ *)
(* Crypto codec                                                        *)
(* ------------------------------------------------------------------ *)

Digit(n) ==
    CASE n = 0 -> "0" [] n = 1 -> "1" [] n = 2 -> "2" [] n = 3 -> "3" [] n = 4 -> "4"
      [] n = 5 -> "5" [] n = 6 -> "6" [] n = 7 -> "7" [] n = 8 -> "8" [] OTHER -> "9"

DigitValue(ch) ==
    CASE ch = "0" -> 0 [] ch = "1" -> 1 [] ch = "2" -> 2 [] ch = "3" -> 3 [] ch = "4" -> 4
      [] ch = "5" -> 5 [] ch = "6" -> 6 [] ch = "7" -> 7 [] ch = "8" -> 8 [] OTHER -> 9

IsDigit(ch) == ch \in {"0", "1", "2", "3", "4", "5", "6", "7", "8", "9"}

RECURSIVE Pow10(_)
Pow10(d) == IF d = 0 THEN 1 ELSE 10 * Pow10(d - 1)

\* The decimal digits of a natural number
RECURSIVE DigitsOf(_)
DigitsOf(n) == IF n < 10 THEN <<Digit(n)>> ELSE DigitsOf(n \div 10) \o <<Digit(n % 10)>>

\* The digits of n, zero-filled on the left to d places
RECURSIVE FracDigits(_, _)
FracDigits(n, d) == IF d = 0 THEN <<>> ELSE FracDigits(n \div 10, d - 1) \o <<Digit(n % 10)>>

\* The number a sequence of digits spells
RECURSIVE NatOf(_)
NatOf(chars) ==
    IF chars = <<>> THEN 0
    ELSE 10 * NatOf(SubSeq(chars, 1, Len(chars) - 1)) + DigitValue(chars[Len(chars)])

Abs(i) == IF i < 0 THEN -i ELSE i

\* A float <<m, d>> in the form repr() prints: at least one decimal place and
\* no trailing zeros beyond it
RECURSIVE NormFloat(_)
NormFloat(f) ==
    IF f[2] = 0 THEN <<f[1] * 10, 1>>
    ELSE IF f[2] > 1 /\ f[1] % 10 = 0 THEN NormFloat(<<f[1] \div 10, f[2] - 1>>)
    ELSE f

\* str(i) of an int
StrInt(i) == (IF i < 0 THEN <<"-">> ELSE <<>>) \o DigitsOf(Abs(i))

\* str(f) of a float
StrFloat(f) ==
    (IF f[1] < 0 THEN <<"-">> ELSE <<>>)
    \o DigitsOf(Abs(f[1]) \div Pow10(f[2])) \o <<".">>
    \o FracDigits(Abs(f[1]) % Pow10(f[2]), f[2])

\* str(x): the characters
Str(x) ==
    CASE x.t = "int" -> StrInt(x.v)
      [] x.t = "float" -> StrFloat(x.v)
      [] x.t = "str" -> x.v
      [] OTHER -> <<"N", "o", "n", "e">>

\* The characters after an optional sign
Unsigned(chars) == IF chars # <<>> /\ chars[1] = "-" THEN Tail(chars) ELSE chars

Sign(chars) == IF chars # <<>> /\ chars[1] = "-" THEN -1 ELSE 1

\* int(s) accepts the string
IsIntLiteral(chars) ==
    /\ Unsigned(chars) # <<>>
    /\ \A i \in 1..Len(Unsigned(chars)) : IsDigit(Unsigned(chars)[i])

\* int(s)
ParseInt(chars) == Sign(chars) * NatOf(Unsigned(chars))

\* Where the decimal point of the string is, or 0
PointAt(chars) ==
    IF \E i \in 1..Len(chars) : chars[i] = "."
    THEN CHOOSE i \in 1..Len(chars) : chars[i] = "." /\ \A j \in 1..(i - 1) : chars[j] # "."
    ELSE 0

\* The string without its decimal point
DropPoint(chars) ==
    IF PointAt(chars) = 0 THEN chars
    ELSE SubSeq(chars, 1, PointAt(chars) - 1) \o SubSeq(chars, PointAt(chars) + 1, Len(chars))

\* float(s) accepts the string: digits with at most one point
IsFloatLiteral(chars) ==
    LET u == Unsigned(chars) IN
    /\ DropPoint(u) # <<>>
    /\ \A i \in 1..Len(DropPoint(u)) : IsDigit(DropPoint(u)[i])

\* float(s)
ParseFloat(chars) ==
    LET u == Unsigned(chars)
        d == IF PointAt(u) = 0 THEN 0 ELSE Len(u) - PointAt(u)
    IN NormFloat(<<Sign(chars) * NatOf(DropPoint(u)), d>>)

\* int(f) of a float: truncation toward zero
TruncFloat(f) == (IF f[1] < 0 THEN -1 ELSE 1) * (Abs(f[1]) \div Pow10(f[2]))

\* Fernet(key).encrypt(data): a token that carries the key's signature
FernetEncrypt(key, nonce, chars) == <<FernetVersion, key, nonce>> \o chars

\* Fernet(key).decrypt accepts the token
FernetVerifies(key, chars) ==
    /\ Len(chars) >= 3
    /\ chars[1] = FernetVersion
    /\ chars[2] = key
    /\ chars[3] \in Nonces

FernetDecrypt(chars) == SubSeq(chars, 4, Len(chars))

\* The outcome of a codec call: the class state after it, the value returned
\* and the exception raised
Outcome(cd, result, raised) == [codec |-> cd, result |-> result, raised |-> raised]

\* AESCipher.__new__
New(cd) ==
    IF ~cd.instance
    THEN IF cd.env = NoKey
         THEN Outcome([cd EXCEPT !.instance = TRUE], PyNone, "ValueError")
         ELSE IF cd.env # ValidKey
         THEN Outcome([cd EXCEPT !.instance = TRUE], PyNone, "ValueError")
         ELSE Outcome([cd EXCEPT !.instance = TRUE, !.cipher = cd.env], PyNone, "")
    ELSE Outcome(cd, PyNone, "")

\* AESCipher.encrypt
Encrypt(cd, data, nonce) ==
    IF data.t = "none" THEN Outcome(cd, PyNone, "")
    ELSE LET n == New(cd) IN
         IF n.raised # "" THEN n
         ELSE IF n.codec.cipher = NoCipher THEN Outcome(n.codec, PyNone, "AttributeError")
         ELSE Outcome(n.codec, PyStr(FernetEncrypt(n.codec.cipher, nonce, Str(data))), "")

\* A decrypt without the except clause
DecryptStrict(cd, data) ==
    IF data.t = "none" THEN Outcome(cd, PyNone, "")
    ELSE LET n == New(cd) IN
         IF n.raised # "" THEN n
         ELSE IF n.codec.cipher = NoCipher THEN Outcome(n.codec, PyNone, "AttributeError")
         ELSE IF ~FernetVerifies(n.codec.cipher, Str(data))
         THEN Outcome(n.codec, PyNone, "InvalidToken")
         ELSE Outcome(n.codec, PyStr(FernetDecrypt(Str(data))), "")

\* A decrypt that returns the token's payload with its first character lost
DecryptLossy(cd, data) ==
    IF data.t = "none" THEN Outcome(cd, PyNone, "")
    ELSE LET n == New(cd) IN
         IF n.raised # "" \/ n.codec.cipher = NoCipher
            \/ ~FernetVerifies(n.codec.cipher, Str(data))
         THEN Outcome(n.codec, PyStr(Str(data)), "")
         ELSE Outcome(n.codec, PyStr(SubSeq(Str(data), 5, Len(Str(data)))), "")

\* AESCipher.decrypt
Decrypt(cd, data) ==
    IF data.t = "none" THEN Outcome(cd, PyNone, "")
    ELSE LET n == New(cd) IN
         IF n.raised # "" \/ n.codec.cipher = NoCipher
            \/ ~FernetVerifies(n.codec.cipher, Str(data))
         THEN Outcome(n.codec, PyStr(Str(data)), "")
         ELSE Outcome(n.codec, PyStr(FernetDecrypt(Str(data))), "")

\* to_mongo of EncryptedStringField, EncryptedIntField and EncryptedFloatField
ToMongo(cd, value, nonce) ==
    IF value.t = "none" THEN Outcome(cd, PyNone, "")
    ELSE Encrypt(cd, PyStr(Str(value)), nonce)

\* int(decrypted), then int(float(decrypted)), then 0
CoerceInt(chars) ==
    IF IsIntLiteral(chars) THEN PyInt(ParseInt(chars))
    ELSE IF IsFloatLiteral(chars) THEN PyInt(TruncFloat(ParseFloat(chars)))
    ELSE PyInt(0)

\* float(decrypted), then 0.0
CoerceFloat(chars) ==
    IF IsFloatLiteral(chars) THEN PyFloat(ParseFloat(chars)) ELSE PyFloat(<<0, 1>>)

\* to_python of the encrypted field of the given kind
ToPython(cd, kind, value) ==
    IF value.t = "none" THEN Outcome(cd, PyNone, "")
    ELSE IF kind = "Int" /\ value.t = "int" THEN Outcome(cd, value, "")
    ELSE IF kind = "Int" /\ value.t = "float" THEN Outcome(cd, PyInt(TruncFloat(value.v)), "")
    ELSE IF kind = "Float" /\ value.t = "int" THEN Outcome(cd, PyFloat(<<value.v * 10, 1>>), "")
    ELSE IF kind = "Float" /\ value.t = "float" THEN Outcome(cd, value, "")
    ELSE LET d == Decrypt(cd, value) IN
         IF kind = "Int" THEN Outcome(d.codec, CoerceInt(d.result.v), "")
         ELSE IF kind = "Float" THEN Outcome(d.codec, CoerceFloat(d.result.v), "")
         ELSE d

\* The record of a codec call
CodecCall(op, field, arg, out, origin, produced) ==
    [op |-> op, field |-> field, arg |-> arg, result |-> out.result,
     raised |-> out.raised, origin |-> origin, produced |-> produced]

\* AESCipher(), as in cipher_suite = AESCipher()
Construct ==
    LET out == New(codec) IN
    /\ codec' = out.codec
    /\ codecOut' = CodecCall("new", "", PyNone, out, PyNone, FALSE)
    /\ UNCHANGED <<authvars, idvars, guardvars>>

\* AESCipher.encrypt(value)
EncryptCall(value, nonce) ==
    LET out == Encrypt(codec, value, nonce) IN
    /\ codec' = out.codec
    /\ codecOut' = CodecCall("encrypt", "", value, out, PyNone, FALSE)
    /\ UNCHANGED <<authvars, idvars, guardvars>>

\* AESCipher.decrypt of the ciphertext the last encrypt returned
DecryptProduced ==
    LET out == Decrypt(codec, codecOut.result) IN
    /\ codecOut.op = "encrypt"
    /\ codecOut.raised = ""
    /\ codec' = out.codec
    /\ codecOut' = CodecCall("decrypt", "", codecOut.result, out, codecOut.arg,
                             codecOut.result.t # "none")
    /\ UNCHANGED <<authvars, idvars, guardvars>>

\* AESCipher.decrypt of a value that was not produced by this codec
DecryptCall(value) ==
    LET out == Decrypt(codec, value) IN
    /\ codec' = out.codec
    /\ codecOut' = CodecCall("decrypt", "", value, out, PyNone, FALSE)
    /\ UNCHANGED <<authvars, idvars, guardvars>>

\* field.to_mongo(value) of an encrypted field
FieldStore(kind, value, nonce) ==
    LET out == ToMongo(codec, value, nonce) IN
    /\ codec' = out.codec
    /\ codecOut' = CodecCall("to_mongo", kind, value, out, PyNone, FALSE)
    /\ UNCHANGED <<authvars, idvars, guardvars>>

\* field.to_python of what the last to_mongo of the same field stored
FieldLoad ==
    LET out == ToPython(codec, codecOut.field, codecOut.result) IN
    /\ codecOut.op = "to_mongo"
    /\ codecOut.raised = ""
    /\ codec' = out.codec
    /\ codecOut' = CodecCall("to_python", codecOut.field, codecOut.result, out,
                             codecOut.arg, codecOut.result.t # "none")
    /\ UNCHANGED <<authvars, idvars, guardvars>>

\* field.to_python of a stored value that was written before encryption
FieldLoadLegacy(kind, value) ==
    LET out == ToPython(codec, kind, value) IN
    /\ codec' = out.codec
    /\ codecOut' = CodecCall("to_python", kind, value, out, PyNone, FALSE)
    /\ UNCHANGED <<authvars, idvars, guardvars>>

(* ------------------------------------------------------------------ *)
(* The guard's decorators and the views that commit                    *)
(* ------------------------------------------------------------------ *)

\* A denial that writes its log entry twice
DenialLogTwice(path, cu, R, logOk) ==
    IF logOk
    THEN <<[level |-> 2, path |-> path, email |-> users[cu].email,
            role |-> users[cu].role, required |-> R],
           [level |-> 2, path |-> path, email |-> users[cu].email,
            role |-> users[cu].role, required |-> R]>>
    ELSE <<>>

\* log_security("Unauthorized access attempt to ...", level=2): the entry the
\* security log gains, none when the logging call fails
DenialLog(path, cu, R, logOk) ==
    IF logOk
    THEN <<[level |-> 2, path |-> path, email |-> users[cu].email,
            role |-> users[cu].role, required |-> R]>>
    ELSE <<>>

\* A request to a handler wrapped by require_role(R): the decorator decides,
\* and the handler runs when it lets the request through
GuardedCall(c, path, R, logOk) ==
    LET cu == CurrentUser(c)
        status == RequireRole(cu, R)
    IN
    /\ MayStep(c)
    /\ req[c].pc = "idle"
    /\ guardOut' = [status |-> status,
                    handlerRuns |-> IF status = 200 THEN 1 ELSE 0,
                    roleRead |-> status # 401,
                    log |-> IF status = 403 THEN DenialLog(path, cu, R, logOk) ELSE <<>>,
                    logFailed |-> status = 403 /\ ~logOk,
                    uid |-> cu, roles |-> R, path |-> path]
    /\ UNCHANGED <<authvars, idvars, codecvars, tx, txOut>>

\* The attribute assignments applied to a row
RECURSIVE ApplyChanges(_, _)
ApplyChanges(row, changes) ==
    IF changes = <<>> THEN row
    ELSE ApplyChanges([row EXCEPT ![Head(changes).field] = Head(changes).value],
                      Tail(changes))

\* What a query through the session returns for account u: the row with the
\* session's uncommitted changes
ReadUser(u) == IF tx.uid = u THEN ApplyChanges(users[u], tx.pending) ELSE users[u]

\* A rollback that leaves the changes in the session
RollbackKeepsPending(t) == [t EXCEPT !.pc = "idle"]

\* db.session.rollback()
Rollback(t) == IdleTx

\* log_security(f"Transaction failed & rolled back in ...: {str(e)}", level=3)
FailureLog(e, logOk) == IF logOk THEN <<[level |-> 3, error |-> e]>> ELSE <<>>

\* The operation f wrapped by secure_transaction runs: it assigns an
\* attribute of account u and returns, or raises err
TxRun(u, chg, err) ==
    /\ Quiescent
    /\ tx.pc = "idle"
    /\ tx' = [pc |-> "ran", uid |-> u, pending |-> <<chg>>, raised |-> err,
              runs |-> tx.runs + 1]
    /\ UNCHANGED <<authvars, idvars, codecvars, guardOut, txOut>>

\* secure_transaction after f: the commit, or the rollback, the log entry
\* and the 500 response when f or the commit raised
TxFinish(commitErr, logOk, json) ==
    LET e == IF tx.raised # NoError THEN tx.raised ELSE commitErr IN
    /\ tx.pc = "ran"
    /\ IF e = NoError
       THEN /\ users' = [users EXCEPT ![tx.uid] = ReadUser(tx.uid)]
            /\ tx' = IdleTx
            /\ txOut' = [view |-> "secure_transaction", status |-> 200,
                         message |-> <<"result">>, log |-> <<>>,
                         logFailed |-> FALSE, printed |-> <<>>,
                         runs |-> tx.runs, error |-> NoError]
       ELSE /\ users' = users
            /\ tx' = Rollback(tx)
            /\ txOut' = [view |-> "secure_transaction", status |-> 500,
                         message |-> IF json THEN MsgTxError ELSE MsgServerError,
                         log |-> FailureLog(e, logOk), logFailed |-> ~logOk,
                         printed |-> <<"[AuthShield] DB Transaction Error: ", e>>,
                         runs |-> tx.runs, error |-> e]
    /\ UNCHANGED <<idvars, codecvars, guardOut, now, ticks, session, req, lastResp,
                   fails, threaded, lockedMid>>

\* PATCH /settings/api/profile with a new email: the conflict check, the
\* commit, and on an exception the rollback and the response built from it
UpdateSelfProfile(c, email, commitErr, logOk) ==
    LET u == CurrentUser(c)
        taken == \E v \in DOMAIN users : v # u /\ users[v].email = email
    IN
    /\ MayStep(c)
    /\ req[c].pc = "idle"
    /\ tx.pc = "idle"
    /\ u # NoUser
    /\ email # users[u].email
    /\ IF taken
       THEN /\ users' = users
            /\ txOut' = [view |-> "update_self_profile", status |-> 409,
                         message |-> MsgEmailInUse, log |-> <<>>,
                         logFailed |-> FALSE, printed |-> <<>>,
                         runs |-> 1, error |-> NoError]
       ELSE IF commitErr = NoError
       THEN /\ users' = [users EXCEPT ![u].email = email]
            /\ txOut' = [view |-> "update_self_profile", status |-> 200,
                         message |-> MsgProfileUpdated, log |-> <<>>,
                         logFailed |-> FALSE, printed |-> <<>>,
                         runs |-> 1, error |-> NoError]
       ELSE /\ users' = users
            /\ txOut' = [view |-> "update_self_profile", status |-> 500,
                         message |-> <<commitErr>>,
                         log |-> FailureLog(commitErr, logOk),
                         logFailed |-> ~logOk, printed |-> <<>>,
                         runs |-> 1, error |-> commitErr]
    /\ tx' = IdleTx
    /\ UNCHANGED <<idvars, codecvars, guardOut, now, ticks, session, req, lastResp,
                   fails, threaded, lockedMid>>

(* ------------------------------------------------------------------ *)
(* Registration and email updates                                      *)
(* ------------------------------------------------------------------ *)

\* The users whose role is Admin
Admins == {u \in DOMAIN users : users[u].role = "Admin"}

\* The response of a registration request, which ends the request
RegisterResponds(c, msg) ==
    /\ lastResp' = Resp("register", 302, msg, req[c])
    /\ req' = [req EXCEPT ![c] = IdleReq]

\* POST /auth/register up to the insert: the address is lowercased, an Admin
\* needs the configured invite code or, with none configured, that no Admin
\* exists, and the address must not be registered in any case
RegisterCheck(c, email, role, code, configured) ==
    LET e == Lower(email) IN
    /\ MayStep(c)
    /\ req[c].pc = "idle"
    /\ IF ValidateSessionDenies(c)
       THEN SessionTerminated(c, "register")
       ELSE /\ IF CurrentUser(c) # NoUser
               THEN RegisterResponds(c, MsgAlready)
               ELSE IF role = "Admin" /\ configured # NoCode /\ code # configured
               THEN RegisterResponds(c, MsgNeedCode)
               ELSE IF role = "Admin" /\ configured = NoCode /\ Admins # {}
               THEN RegisterResponds(c, MsgAdminExists)
               ELSE IF FindUser(e) # NoUser
               THEN RegisterResponds(c, MsgRegistered)
               ELSE /\ req' = [req EXCEPT ![c] =
                                 [IdleReq EXCEPT !.pc = "insert", !.email = e,
                                                 !.obj = NewUser(e, role, GoodPassword)]]
                    /\ lastResp' = lastResp
            /\ lockedMid' = [lockedMid EXCEPT ![c] = FALSE]
            /\ UNCHANGED <<threaded, idvars, sidevars, now, ticks, users, session, fails>>

\* db.session.add(new_user) and the commit: the unique index on email
\* refuses an address already stored (IntegrityError, "Registration failed")
RegisterInsert(c) ==
    LET n == Cardinality(DOMAIN users) IN
    /\ MayStep(c)
    /\ req[c].pc = "insert"
    /\ IF \E u \in DOMAIN users : users[u].email = req[c].obj.email
       THEN /\ RegisterResponds(c, MsgRegFailed)
            /\ UNCHANGED <<users, fails>>
       ELSE /\ users' = users @@ ((n + 1) :> req[c].obj)
            /\ fails' = fails @@ ((n + 1) :> 0)
            /\ RegisterResponds(c, "")
    /\ UNCHANGED <<threaded, idvars, sidevars, lockedMid, now, ticks, session>>

\* The answer of an email update
EmailUpdateOut(view, status, msg, e, logOk) ==
    [view |-> view, status |-> status, message |-> msg,
     log |-> IF e = NoError THEN <<>> ELSE FailureLog(e, logOk),
     logFailed |-> e # NoError /\ ~logOk, printed |-> <<>>, runs |-> 1, error |-> e]

\* PATCH /admin/api/users/update-email: ensure_admin, the target, the
\* conflict check on the address as given, the commit
UpdateUserEmail(c, target, email, commitErr, logOk) ==
    LET u == CurrentUser(c)
        taken == \E v \in DOMAIN users : v # target /\ users[v].email = email
    IN
    /\ MayStep(c)
    /\ req[c].pc = "idle"
    /\ tx.pc = "idle"
    /\ u # NoUser
    /\ IF users[u].role # "Admin"
       THEN /\ users' = users
            /\ txOut' = EmailUpdateOut("update_user_email", 403, MsgAdminRequired,
                                       NoError, logOk)
       ELSE IF target \notin DOMAIN users
       THEN /\ users' = users
            /\ txOut' = EmailUpdateOut("update_user_email", 404, MsgUserNotFound,
                                       NoError, logOk)
       ELSE IF taken
       THEN /\ users' = users
            /\ txOut' = EmailUpdateOut("update_user_email", 409, MsgEmailInUse,
                                       NoError, logOk)
       ELSE IF commitErr = NoError
       THEN /\ users' = [users EXCEPT ![target].email = email]
            /\ txOut' = EmailUpdateOut("update_user_email", 200, MsgUserEmailUpdated,
                                       NoError, logOk)
       ELSE /\ users' = users
            /\ txOut' = EmailUpdateOut("update_user_email", 500, <<commitErr>>,
                                       commitErr, logOk)
    /\ tx' = IdleTx
    /\ UNCHANGED <<idvars, codecvars, guardOut, now, ticks, session, req, lastResp,
                   fails, threaded, lockedMid>>

\* POST /admin/api/self/update-email: ensure_admin, the conflict check on
\* the address as given, the commit
UpdateSelfEmail(c, email, commitErr, logOk) ==
    LET u == CurrentUser(c)
        taken == \E v \in DOMAIN users : v # u /\ users[v].email = email
    IN
    /\ MayStep(c)
    /\ req[c].pc = "idle"
    /\ tx.pc = "idle"
    /\ u # NoUser
    /\ IF users[u].role # "Admin"
       THEN /\ users' = users
            /\ txOut' = EmailUpdateOut("update_self_email_api", 403, MsgAdminRequired,
                                       NoError, logOk)
       ELSE IF taken
       THEN /\ users' = users
            /\ txOut' = EmailUpdateOut("update_self_email_api", 409, MsgEmailInUseShort,
                                       NoError, logOk)
       ELSE IF commitErr = NoError
       THEN /\ users' = [users EXCEPT ![u].email = email]
            /\ txOut' = EmailUpdateOut("update_self_email_api", 200, MsgEmailUpdated,
                                       NoError, logOk)
       ELSE /\ users' = users
            /\ txOut' = EmailUpdateOut("update_self_email_api", 500, MsgInternal,
                                       commitErr, logOk)
    /\ tx' = IdleTx
    /\ UNCHANGED <<idvars, codecvars, guardOut, now, ticks, session, req, lastResp,
                   fails, threaded, lockedMid>>

(* ------------------------------------------------------------------ *)
(* Patient views                                                       *)
(* ------------------------------------------------------------------ *)

\* The body of api_patient_list_view for principal cu: the AJAX header is
\* all it looks at
ListViewStatus(cu, ajax) == IF ~ajax THEN 403 ELSE 200

\* GET /patient/views/list: the session hook, login_required, the view
PatientListView(c, ajax) ==
    LET cu == CurrentUser(c) IN
    /\ MayStep(c)
    /\ req[c].pc = "idle"
    /\ IF ValidateSessionDenies(c)
       THEN SessionTerminated(c, "patient_list")
       ELSE /\ lastResp' = Resp("patient_list",
                                IF cu = NoUser THEN 302 ELSE ListViewStatus(cu, ajax),
                                IF cu = NoUser THEN ""
                                ELSE IF ajax THEN "" ELSE MsgListNoAjax,
                                [IdleReq EXCEPT !.uid = cu])
            /\ lockedMid' = [lockedMid EXCEPT ![c] = FALSE]
            /\ UNCHANGED <<threaded, idvars, sidevars, now, ticks, users, session, req, fails>>

\* The role delete_patient lets through
DeleteRole == "admin"

\* POST /patient/delete/<patient_id>: the session hook, login_required, and
\* the view.  For a principal whose role is not DeleteRole the view builds
\* the log line from current_user.username, an attribute the account model
\* does not have: the AttributeError is caught by the view's handler, which
\* answers 500 with its text.
DeletePatientView(c, id) ==
    LET cu == CurrentUser(c)
        hits == {d \in BagToSet(patients) : d.patient_id = id}
    IN
    /\ MayStep(c)
    /\ req[c].pc = "idle"
    /\ \A d \in Clients : gen[d].pc = "idle"
    /\ IF ValidateSessionDenies(c)
       THEN SessionTerminated(c, "delete_patient")
       ELSE /\ IF cu = NoUser
               THEN /\ lastResp' = Resp("delete_patient", 302, "", IdleReq)
                    /\ patients' = patients
               ELSE IF users[cu].role # DeleteRole
               THEN /\ lastResp' = Resp("delete_patient", 500, MsgDeleteError,
                                        [IdleReq EXCEPT !.uid = cu])
                    /\ patients' = patients
               ELSE IF hits = {}
               THEN /\ lastResp' = Resp("delete_patient", 404, MsgNoPatient,
                                        [IdleReq EXCEPT !.uid = cu])
                    /\ patients' = patients
               ELSE /\ lastResp' = Resp("delete_patient", 200, MsgDeleted,
                                        [IdleReq EXCEPT !.uid = cu])
                    /\ patients' = patients (-) SetToBag({CHOOSE d \in hits : TRUE})
            /\ lockedMid' = [lockedMid EXCEPT ![c] = FALSE]
            /\ UNCHANGED <<threaded, sidevars, gen, lastGen, now, ticks, users, session,
                           req, fails>>

(* ------------------------------------------------------------------ *)
(* Specifications                                                      *)
(* ------------------------------------------------------------------ *)

Next ==
    \/ Tick
    \/ \E c \in Clients, R \in SUBSET Roles : ProtectedRequest(c, R)
    \/ \E c \in Clients : Logout(c)
    \/ \E c \in Clients, e \in FormEmails, pw \in FormPasswords : LoginQuery(c, e, pw)
    \/ \E c \in Clients : LoginLockCheck(c)
    \/ \E c \in Clients : LoginCheckCredentials(c)
    \/ \E c \in Clients : LoginSuccess(c)
    \/ \E c \in Clients : LoginRecordFailure(c)
    \/ \E c \in Clients : LoginThreshold(c)
    \/ \E c \in Clients : LoginLock(c)

\* Requests are handled one at a time
Spec == Init /\ [][Next]_vars

\* Login requests handled in parallel: their database round trips interleave
NextConc ==
    \/ \E c \in Clients, e \in FormEmails, pw \in FormPasswords : LoginQuery(c, e, pw)
    \/ \E c \in Clients : LoginLockCheck(c)
    \/ \E c \in Clients : LoginCheckCredentials(c)
    \/ \E c \in Clients : LoginSuccess(c)
    \/ \E c \in Clients : LoginRecordFailure(c)
    \/ \E c \in Clients : LoginThreshold(c)
    \/ \E c \in Clients : LoginLock(c)

SpecConc == InitConc /\ [][NextConc]_vars

\* The application together with direct calls of lock() and unlock()
NextMethods ==
    \/ Next
    \/ \E u \in DOMAIN users : LockCall(u)
    \/ \E u \in DOMAIN users : UnlockCall(u)

InitMethods == Init /\ users[1].role = "Doctor"

SpecMethods == InitMethods /\ [][NextMethods]_vars

\* The login view over a database whose commits may fail
NextFaulty ==
    \/ \E c \in Clients, e \in FormEmails, pw \in FormPasswords : LoginQuery(c, e, pw)
    \/ \E c \in Clients : LoginLockCheck(c)
    \/ \E c \in Clients : LoginCheckCredentials(c)
    \/ \E c \in Clients : LoginSuccess(c)
    \/ \E c \in Clients : LoginRecordFailure(c)
    \/ \E c \in Clients : LoginThreshold(c)
    \/ \E c \in Clients : LoginLock(c)
    \/ \E c \in Clients : Logout(c)
    \/ \E c \in Clients, e \in DbErrors : LoginCommitFails(c, e)

InitFaulty == Init /\ users[1].role = "Doctor"

SpecFaulty == InitFaulty /\ [][NextFaulty]_vars

\* The patient side alone
NextIds ==
    \/ \E c \in Clients : BeginCreate(c)
    \/ \E c \in Clients, cand \in Dates \X RandomDraws : GenAttempt(c, cand)
    \/ \E c \in Clients : GenExhausted(c)
    \/ \E c \in Clients : SavePatient(c)

InitIds == Init /\ users[1].role = "Doctor"

SpecIds == InitIds /\ [][NextIds]_vars

\* Patient creations handled in parallel, and deletions: the lookups of one
\* creation interleave with the inserts of another
NextIdsConc ==
    \/ \E c \in Clients : BeginCreate(c)
    \/ \E c \in Clients, cand \in ConcDates \X RandomDraws : GenAttempt(c, cand)
    \/ \E c \in Clients : GenExhausted(c)
    \/ \E c \in Clients : SavePatient(c)
    \/ \E cand \in ConcDates \X RandomDraws, c \in Clients :
          DeletePatient(NewPatient(MakeId(cand), c))

InitIdsConc == InitConc

SpecIdsConc == InitIdsConc /\ [][NextIdsConc]_vars

\* The codec from the import of its module on
NextCodec ==
    \/ Construct
    \/ \E n \in Nonces :
          \/ EncryptCall(PyNone, n)
          \/ \E i \in IntInputs : EncryptCall(PyInt(i), n)
          \/ \E f \in FloatInputs : EncryptCall(PyFloat(f), n)
          \/ \E chars \in StrInputs : EncryptCall(PyStr(chars), n)
    \/ DecryptProduced
    \/ DecryptCall(PyNone)
    \/ \E i \in IntInputs : DecryptCall(PyInt(i))
    \/ \E f \in FloatInputs : DecryptCall(PyFloat(f))
    \/ \E chars \in StrInputs \cup BadTokens : DecryptCall(PyStr(chars))
    \/ \E n \in Nonces :
          \/ \E i \in IntInputs : FieldStore("Int", PyInt(i), n)
          \/ \E f \in FloatInputs : FieldStore("Float", PyFloat(f), n)
          \/ \E chars \in StrInputs : FieldStore("String", PyStr(chars), n)
    \/ FieldLoad
    \/ \E kind \in {"Int", "Float"} :
          \/ \E i \in IntInputs : FieldLoadLegacy(kind, PyInt(i))
          \/ \E f \in FloatInputs : FieldLoadLegacy(kind, PyFloat(f))
          \/ \E chars \in StrInputs : FieldLoadLegacy(kind, PyStr(chars))

\* The class before its first construction, under each environment
InitCodec ==
    /\ InitState
    /\ threaded = FALSE
    /\ users[1].role = "Doctor"
    /\ \E e \in EnvKeys : codec = [env |-> e, instance |-> FALSE, cipher |-> NoCipher]
    /\ codecOut = IdleCodecOut

SpecCodec == InitCodec /\ [][NextCodec]_vars


\* Sign-in with the right password, which gives a client its principal
SignIn ==
    \/ \E c \in Clients : LoginQuery(c, "Doc@x.org", GoodPassword)
    \/ \E c \in Clients : LoginLockCheck(c)
    \/ \E c \in Clients : LoginCheckCredentials(c)
    \/ \E c \in Clients : LoginSuccess(c)
    \/ \E c \in Clients : Logout(c)

\* Requests to handlers wrapped by require_role
NextGuard ==
    \/ SignIn
    \/ \E c \in Clients, path \in GuardPaths, R \in SUBSET Roles, logOk \in BOOLEAN :
          GuardedCall(c, path, R, logOk)

SpecGuard == Init /\ [][NextGuard]_vars

\* Operations that commit to the database
NextTx ==
    \/ SignIn
    \/ \E u \in DOMAIN users, chg \in TxChanges, err \in DbErrors \cup {NoError} :
          TxRun(u, chg, err)
    \/ \E commitErr \in DbErrors \cup {NoError}, logOk \in BOOLEAN, json \in BOOLEAN :
          TxFinish(commitErr, logOk, json)
    \/ \E c \in Clients, email \in ProfileEmails, commitErr \in DbErrors \cup {NoError},
          logOk \in BOOLEAN : UpdateSelfProfile(c, email, commitErr, logOk)

InitTx == Init /\ users[1].role = "Doctor"

SpecTx == InitTx /\ [][NextTx]_vars

\* Registrations and email updates, one request at a time, with no invite
\* code configured and a security log that takes every entry
NextAccounts ==
    \/ SignIn
    \/ \E c \in Clients, email \in RegEmails, role \in Roles :
          RegisterCheck(c, email, role, NoCode, NoCode)
    \/ \E c \in Clients : RegisterInsert(c)
    \/ \E c \in Clients, email \in AccountEmails, commitErr \in DbErrors \cup {NoError} :
          UpdateSelfProfile(c, email, commitErr, TRUE)
    \/ \E c \in Clients, target \in 1..3, email \in AccountEmails,
          commitErr \in DbErrors \cup {NoError} :
          UpdateUserEmail(c, target, email, commitErr, TRUE)
    \/ \E c \in Clients, email \in AccountEmails, commitErr \in DbErrors \cup {NoError} :
          UpdateSelfEmail(c, email, commitErr, TRUE)

SpecAccounts == Init /\ [][NextAccounts]_vars

\* Registrations handled in parallel, with no invite code configured
NextRegisterConc ==
    \/ \E c \in Clients, email \in RegEmails, role \in Roles, code \in FormCodes :
          RegisterCheck(c, email, role, code, NoCode)
    \/ \E c \in Clients : RegisterInsert(c)

SpecRegisterConc == InitConc /\ [][NextRegisterConc]_vars

\* The patient list view called by signed-in and anonymous clients
NextListView ==
    \/ \E c \in Clients, e \in ViewEmails : LoginQuery(c, e, GoodPassword)
    \/ \E c \in Clients : LoginLockCheck(c)
    \/ \E c \in Clients : LoginCheckCredentials(c)
    \/ \E c \in Clients : LoginSuccess(c)
    \/ \E c \in Clients : Logout(c)
    \/ \E c \in Clients, ajax \in BOOLEAN : PatientListView(c, ajax)

SpecListView == Init /\ [][NextListView]_vars

\* delete_patient called by signed-in and anonymous clients, over a
\* collection that creations fill
NextDelete ==
    \/ SignIn
    \/ \E c \in Clients : BeginCreate(c)
    \/ \E c \in Clients, cand \in ConcDates \X RandomDraws : GenAttempt(c, cand)
    \/ \E c \in Clients : GenExhausted(c)
    \/ \E c \in Clients : SavePatient(c)
    \/ \E c \in Clients, cand \in ConcDates \X RandomDraws : DeletePatientView(c, MakeId(cand))

SpecDelete == Init /\ [][NextDelete]_vars

(* ------------------------------------------------------------------ *)
(* Lockout properties                                                  *)
(* ------------------------------------------------------------------ *)

\* Time elapsed since the persisted lock of account u, in clock units
ElapsedUnits(u) == now - users[u].locked_at

\* Client c's request leaves program point p in this step
Leaves(c, p) == req[c].pc = p /\ req'[c].pc # p

\* C1: an account that has taken exactly T consecutive failed login attempts
\* since it was last unlocked with counter 0 is locked, and one that has
\* taken fewer is not locked.
C1_LockedAtThreshold ==
    \A u \in DOMAIN users :
        /\ fails[u] = ACCOUNT_LOCKOUT_ATTEMPTS => users[u].is_locked
        /\ fails[u] < ACCOUNT_LOCKOUT_ATTEMPTS => ~users[u].is_locked

C1_Witness ==
    \E u \in DOMAIN users :
        /\ fails[u] = ACCOUNT_LOCKOUT_ATTEMPTS
        /\ users[u].is_locked
        /\ lastResp.message = MsgLockedNow

\* C2: while an account is locked and less than P has elapsed since its lock
\* timestamp, a login attempt for it is answered "locked", whatever the
\* password; no session is established and the password is not compared.
C2_LockedRejects ==
    [][\A c \in Clients :
         (/\ Leaves(c, "lockcheck")
          /\ req[c].uid # NoUser
          /\ users[req[c].uid].is_locked
          /\ ElapsedUnits(req[c].uid) < PeriodUnits)
         => /\ lastResp'.route = "login"
            /\ lastResp'.message = MsgLocked
            /\ ~lastResp'.compared
            /\ req'[c].pc = "idle"
            /\ session' = session
            /\ users' = users]_vars

C2_Witness ==
    /\ lastResp.route = "login"
    /\ lastResp.message = MsgLocked
    /\ lastResp.password = GoodPassword
    /\ lastResp.uid # NoUser
    /\ users[lastResp.uid].is_locked
    /\ now > users[lastResp.uid].locked_at

\* C3: when the account of a login attempt is locked and at least P has
\* elapsed since its lock timestamp, the attempt clears the lock flag and
\* the lock timestamp and resets the counter before the credentials are
\* evaluated, whatever the credentials.
C3_AutoUnlock ==
    [][\A c \in Clients :
         (/\ Leaves(c, "lockcheck")
          /\ req[c].uid # NoUser
          /\ users[req[c].uid].is_locked
          /\ ElapsedUnits(req[c].uid) >= PeriodUnits)
         => /\ ~users'[req[c].uid].is_locked
            /\ users'[req[c].uid].locked_at = NoTime
            /\ users'[req[c].uid].failed_login_attempts = 0
            /\ req'[c].pc = "creds"
            /\ ~req'[c].compared]_vars

C3_Witness ==
    \E c \in Clients :
        /\ req[c].pc = "creds"
        /\ req[c].unlocked
        /\ req[c].password # GoodPassword
        /\ ~users[req[c].uid].is_locked
        /\ users[req[c].uid].failed_login_attempts = 0

\* C4: a successful authentication leaves the counter at 0 and the
\* last-failed timestamp cleared, whatever the counter was before.
C4_SuccessResets ==
    [][\A c \in Clients :
         Leaves(c, "success")
         => /\ users'[req[c].uid].failed_login_attempts = 0
            /\ users'[req[c].uid].last_failed_login = NoTime
            /\ session'[c] = req[c].uid]_vars

C4_Witness ==
    /\ lastResp.route = "login"
    /\ lastResp.status = 302
    /\ lastResp.compared
    /\ lastResp.prior = ACCOUNT_LOCKOUT_ATTEMPTS - 1
    /\ users[lastResp.uid].failed_login_attempts = 0
    /\ users[lastResp.uid].last_failed_login = NoTime

\* C5: in every persisted account state the lock flag is true exactly when
\* the lock timestamp is set.
C5_LockFlagIffStamp ==
    \A u \in DOMAIN users : users[u].is_locked <=> users[u].locked_at # NoTime

C5_Witness ==
    \E u \in DOMAIN users :
        /\ users[u].is_locked
        /\ users[u].locked_at >= PeriodUnits
        /\ fails[u] = ACCOUNT_LOCKOUT_ATTEMPTS
        /\ lastResp.message = MsgLockedNow

(* ------------------------------------------------------------------ *)
(* Access guard properties                                             *)
(* ------------------------------------------------------------------ *)

\* Client c sends a request in this step
Requests(c) ==
    \/ \E R \in SUBSET Roles : ProtectedRequest(c, R)
    \/ Logout(c)
    \/ \E e \in FormEmails, pw \in FormPasswords : LoginQuery(c, e, pw)

\* C6: the guard (session hook, then require_role(R)) lets the protected
\* handler run exactly when the request carries an authenticated principal
\* whose role is in R and whose persisted lock flag is false.
C6_GuardAllowsIff ==
    [][\A c \in Clients, R \in SUBSET Roles :
         ProtectedRequest(c, R)
         => (lastResp'.status = 200
             <=> /\ session[c] \in DOMAIN users
                 /\ users[session[c]].role \in R
                 /\ ~users[session[c]].is_locked)]_vars

C6_Witness ==
    /\ lastResp.route = "protected"
    /\ lastResp.status = 200
    /\ lastResp.uid # NoUser
    /\ \E c \in Clients : session[c] = lastResp.uid

FailedOnCredentials ==
    /\ lastResp.route = "login"
    /\ lastResp.status = 200
    /\ \/ lastResp.uid = NoUser
       \/ lastResp.compared /\ ~lastResp.unlocked

C9_NoLostUpdate ==
    \A u \in DOMAIN users :
        (/\ Quiescent
         /\ \A c \in Clients : session[c] = NoUser
         /\ fails[u] <= ACCOUNT_LOCKOUT_ATTEMPTS)
        => /\ users[u].failed_login_attempts = fails[u]
           /\ fails[u] = ACCOUNT_LOCKOUT_ATTEMPTS => users[u].is_locked

(* ------------------------------------------------------------------ *)
(* Identifier generation properties                                    *)
(* ------------------------------------------------------------------ *)

\* C10: generation makes at most 5 attempts with one existence lookup each;
\* it returns the first candidate that is absent from storage, and when all
\* 5 candidates are stored it fails after exactly 5 lookups, returning no
\* identifier and saving nothing.
C10_BoundedGeneration ==
    /\ \A c \in Clients :
        /\ gen[c].attempt <= 5
        /\ gen[c].lookups <= 5
        /\ gen[c].pc = "loop"
           => /\ gen[c].attempt > 0 => gen[c].tried \in StoredIds
              /\ gen[c].lookups = gen[c].attempt
        /\ gen[c].pc = "save"
           => /\ gen[c].id = gen[c].tried
              /\ gen[c].id \notin StoredIds
              /\ gen[c].attempt < 5
              /\ gen[c].lookups = gen[c].attempt + 1
    /\ lastGen.status = 500
       => /\ ~lastGen.ok
          /\ lastGen.id = <<>>
          /\ lastGen.attempts = 5
          /\ lastGen.lookups = 5
    /\ lastGen.status = 200
       => /\ lastGen.id \in StoredIds
          /\ lastGen.attempts = lastGen.lookups

C10_Witness ==
    /\ lastGen.status = 500
    /\ ~lastGen.ok
    /\ lastGen.attempts = 5
    /\ lastGen.lookups = 5
    /\ \A c \in Clients : gen[c].pc = "idle"

\* C11: whenever a record is successfully created (identifier generated, then
\* record inserted), its identifier differs from the identifier of every
\* record created before it and not deleted since.
C11_CreatedIdsDiffer ==
    [][\A c \in Clients :
         (SavePatient(c) /\ lastGen'.ok)
         => /\ \A d \in BagToSet(patients) : d.patient_id # lastGen'.id
            /\ patients' = patients (+) SetToBag({NewPatient(lastGen'.id, c)})]_vars

C11_Witness ==
    /\ lastGen.ok
    /\ \E d1, d2 \in BagToSet(patients) :
          /\ d1.patient_id # d2.patient_id
          /\ d1.created_by # d2.created_by
          /\ d2.patient_id = lastGen.id

\* C12: when two creations run in parallel and both generators accept the
\* same identifier, storage never holds two records with the same
\* identifier: the insert that comes second fails, its request is answered
\* with an error, and the stored record is left unchanged.
C12_InsertRaceKeepsUnique ==
    [][/\ \A d \in BagToSet(patients') : CopiesIn(d, patients') = 1
       /\ \A d1, d2 \in BagToSet(patients') :
            d1.patient_id = d2.patient_id => d1 = d2
       /\ \A c \in Clients :
            (SavePatient(c) /\ gen[c].id \in StoredIds)
            => /\ patients' = patients
               /\ ~lastGen'.ok
               /\ lastGen'.status = 500]_vars

C12_Witness ==
    /\ lastGen.status = 500
    /\ ~lastGen.ok
    /\ lastGen.id \in StoredIds
    /\ \A c \in Clients : gen[c].pc = "idle"

(* ------------------------------------------------------------------ *)
(* Codec properties                                                    *)
(* ------------------------------------------------------------------ *)

\* Two Python values are equal: same type, same value
SameValue(a, b) == a.t = b.t /\ a.v = b.v

\* The encrypted field made for values of this type
FieldOf(value) ==
    CASE value.t = "int" -> "Int" [] value.t = "float" -> "Float" [] OTHER -> "String"

\* C13 as claimed: for every scalar v (integer, float or string),
\* decrypt(encrypt(v)) is v, the original typed value.
C13_RoundTripTyped ==
    (codecOut.op = "decrypt" /\ codecOut.produced)
    => SameValue(codecOut.result, codecOut.origin)

\* C13 as amended: decrypt(encrypt(v)) is the string form of v, whichever
\* nonce the encryption drew, and the encrypted field of v's type gives
\* back v itself: to_python(to_mongo(v)) = v.
C13_RoundTripByType ==
    /\ (codecOut.op = "decrypt" /\ codecOut.produced)
       => SameValue(codecOut.result, PyStr(Str(codecOut.origin)))
    /\ (codecOut.op = "to_python" /\ codecOut.produced
        /\ codecOut.field = FieldOf(codecOut.origin))
       => SameValue(codecOut.result, codecOut.origin)

C13_Witness ==
    /\ codecOut.op = "to_python"
    /\ codecOut.produced
    /\ codecOut.field = "Float"
    /\ codecOut.arg.t = "str"
    /\ codecOut.arg.v[3] = "n2"
    /\ SameValue(codecOut.result, PyFloat(<<5, 2>>))

\* C14 as claimed: with the key absent or malformed every construction fails
\* with the configuration error, no instance exists without a cipher, and no
\* encrypt or decrypt of a value returns without a key.
C14_KeylessAlwaysFails ==
    codec.env # ValidKey
    => /\ ~codec.instance
       /\ codecOut.op = "new" => codecOut.raised = "ValueError"
       /\ (codecOut.op \in {"encrypt", "decrypt"} /\ codecOut.arg.t # "none")
          => codecOut.raised = "ValueError"

\* C15: decrypt never raises: None gives None, a ciphertext of this codec
\* gives its plaintext, and every other input comes back as its own string
\* form; encrypt of None gives None.
C15_DecryptTotal ==
    /\ codecOut.op = "decrypt"
       => /\ codecOut.raised = ""
          /\ codecOut.arg.t = "none" => codecOut.result.t = "none"
          /\ (codecOut.arg.t # "none" /\ codecOut.produced)
             => SameValue(codecOut.result, PyStr(Str(codecOut.origin)))
          /\ (codecOut.arg.t # "none" /\ ~codecOut.produced)
             => SameValue(codecOut.result, PyStr(Str(codecOut.arg)))
    /\ (codecOut.op = "encrypt" /\ codecOut.arg.t = "none")
       => codecOut.result.t = "none" /\ codecOut.raised = ""

C15_Witness ==
    /\ codec.env = ValidKey
    /\ codecOut.op = "decrypt"
    /\ codecOut.raised = ""
    /\ codecOut.arg.t = "str"
    /\ codecOut.arg.v \in BadTokens
    /\ SameValue(codecOut.result, codecOut.arg)

(* ------------------------------------------------------------------ *)
(* Properties of the decorators and of the committing views            *)
(* ------------------------------------------------------------------ *)

\* C16: require_role(R) decides in a fixed order.  Without an authenticated
\* principal it answers 401 and does not read the role; with a principal
\* whose role is not in R it answers 403 and writes one security log entry
\* that names the path, the principal, its role and R; in both cases the
\* handler does not run; otherwise the handler runs exactly once.  When the
\* logging call fails no entry is written and the decision is the same.
C16_RequireRoleOrder ==
    guardOut.status # 0
    => /\ guardOut.uid = NoUser
          => /\ guardOut.status = 401
             /\ ~guardOut.roleRead
             /\ guardOut.handlerRuns = 0
             /\ guardOut.log = <<>>
       /\ (guardOut.uid # NoUser /\ users[guardOut.uid].role \notin guardOut.roles)
          => /\ guardOut.status = 403
             /\ guardOut.handlerRuns = 0
             /\ guardOut.logFailed => guardOut.log = <<>>
             /\ ~guardOut.logFailed
                => /\ Len(guardOut.log) = 1
                   /\ guardOut.log[1].path = guardOut.path
                   /\ guardOut.log[1].email = users[guardOut.uid].email
                   /\ guardOut.log[1].role = users[guardOut.uid].role
                   /\ guardOut.log[1].required = guardOut.roles
       /\ (guardOut.uid # NoUser /\ users[guardOut.uid].role \in guardOut.roles)
          => /\ guardOut.status = 200
             /\ guardOut.handlerRuns = 1
             /\ guardOut.log = <<>>

C16_Witness ==
    /\ guardOut.status = 403
    /\ guardOut.uid # NoUser
    /\ guardOut.logFailed
    /\ guardOut.log = <<>>
    /\ guardOut.handlerRuns = 0
    /\ guardOut.roles # {}

\* The operation wrapped by secure_transaction ends in this step with the
\* operation or the commit having raised
TxFails ==
    \E commitErr \in DbErrors \cup {NoError}, logOk \in BOOLEAN, json \in BOOLEAN :
        /\ TxFinish(commitErr, logOk, json)
        /\ tx.raised # NoError \/ commitErr # NoError

\* The operation wrapped by secure_transaction ends in this step without an
\* exception
TxSucceeds ==
    \E logOk \in BOOLEAN, json \in BOOLEAN :
        TxFinish(NoError, logOk, json) /\ tx.raised = NoError

C18_NoExceptionText ==
    /\ txOut.status = 500
       => \A i \in 1..Len(txOut.message) : txOut.message[i] \notin DbErrors
    /\ lastGen.status = 500
       => \A i \in 1..Len(lastGen.message) :
             lastGen.message[i] \notin {ErrExhausted, ErrDuplicate}

(* ------------------------------------------------------------------ *)
(* Persistence failures in the login view                              *)
(* ------------------------------------------------------------------ *)

\* C19 as claimed: when the write that records a login outcome fails, the
\* persistence error is not raised to the caller, the login response is
\* still produced, and a login with correct credentials is accepted.
C19_WriteFailureTolerated ==
    [][\A c \in Clients, e \in DbErrors :
         LoginCommitFails(c, e)
         => /\ lastResp'.status # 500
            /\ lastResp'.message # e
            /\ req[c].pc = "success" => session'[c] = req[c].uid]_vars

(* ------------------------------------------------------------------ *)
(* lock() and unlock()                                                 *)
(* ------------------------------------------------------------------ *)

\* C20 as claimed: lock() on an account that lock() has locked, and unlock()
\* on an account that unlock() has unlocked, leave the lock flag, the lock
\* timestamp, the counter and the last-failed timestamp as they are, at
\* whatever time the second call is made.
C20_LockUnlockIdempotent ==
    [][\A u \in DOMAIN users :
         /\ (LockCall(u) /\ users[u].is_locked) => users'[u] = users[u]
         /\ (UnlockCall(u) /\ users[u] = Unlock(users[u])) => users'[u] = users[u]]_vars

(* ------------------------------------------------------------------ *)
(* Patient views                                                       *)
(* ------------------------------------------------------------------ *)

\* C21 as claimed: the patient list view, requested with the AJAX header by
\* an authenticated principal, answers 403 to a Nurse and 200 to a Doctor.
C21_ListViewRoleRestricted ==
    [][\A c \in Clients :
         (/\ PatientListView(c, TRUE)
          /\ CurrentUser(c) # NoUser
          /\ ~ValidateSessionDenies(c))
         => /\ users[CurrentUser(c)].role = "Nurse" => lastResp'.status = 403
            /\ users[CurrentUser(c)].role = "Doctor" => lastResp'.status = 200]_vars

\* C24 as claimed: delete_patient called by an authenticated principal for a
\* stored record removes the record when the principal's role is Admin, and
\* for every other role answers 403 "Only admins can delete records" and
\* leaves the collection as it is.
C24_DeleteIffAdmin ==
    [][\A c \in Clients, d \in BagToSet(patients) :
         (/\ DeletePatientView(c, d.patient_id)
          /\ CurrentUser(c) # NoUser
          /\ ~ValidateSessionDenies(c))
         => IF users[CurrentUser(c)].role = "Admin"
            THEN d.patient_id \notin {e.patient_id : e \in BagToSet(patients')}
            ELSE /\ lastResp'.status = 403
                 /\ lastResp'.message = MsgOnlyAdmins
                 /\ patients' = patients]_vars

(* ------------------------------------------------------------------ *)
(* Invariants of the account row                                       *)
(* ------------------------------------------------------------------ *)

\* C23 as claimed: in every persisted state an account that is not locked
\* has its failed-attempt counter strictly below the threshold, between the
\* steps of a failed login and after a failed persistence step included.
C23_ActiveBelowThreshold ==
    \A u \in DOMAIN users :
        ~users[u].is_locked => users[u].failed_login_attempts < ACCOUNT_LOCKOUT_ATTEMPTS

\* C28 as claimed: the failed-attempt counter never exceeds the threshold,
\* whichever way concurrent login attempts on the account interleave.
C28_CounterAtMostThreshold ==
    \A u \in DOMAIN users : users[u].failed_login_attempts <= ACCOUNT_LOCKOUT_ATTEMPTS

\* C29 as claimed: a locked account has a failed-attempt counter of at least
\* the threshold, and the only step that sets the lock flag is the lock step
\* of a failed login.
C29_LockedOnlyByFailures ==
    /\ [](\A u \in DOMAIN users :
            users[u].is_locked => users[u].failed_login_attempts >= ACCOUNT_LOCKOUT_ATTEMPTS)
    /\ [][\A u \in DOMAIN users :
            (~users[u].is_locked /\ users'[u].is_locked)
            => \E c \in Clients : LoginLock(c) /\ req[c].uid = u]_vars

\* C26: in every account state the failed-attempt counter is 0 exactly when
\* the last-failed timestamp is null.
C26_CounterZeroIffNoStamp ==
    \A u \in DOMAIN users :
        (users[u].failed_login_attempts = 0) <=> (users[u].last_failed_login = NoTime)

C26_Witness ==
    /\ lastResp.route = "login"
    /\ lastResp.status = 302
    /\ lastResp.prior > 0
    /\ users[lastResp.uid].failed_login_attempts = 0
    /\ users[lastResp.uid].last_failed_login = NoTime
    /\ now > 0

\* C27: a login attempt answered "locked" leaves every account row as it
\* was: the counter, the last-failed timestamp, the lock flag and the lock
\* timestamp of the account keep their values, so the moment the lockout
\* ends does not move.
C27_LockedRejectFrame ==
    [][\A c \in Clients :
         (/\ req[c].pc = "lockcheck"
          /\ req'[c].pc = "idle"
          /\ lastResp'.message = MsgLocked)
         => /\ users'[req[c].uid].failed_login_attempts
                 = users[req[c].uid].failed_login_attempts
            /\ users'[req[c].uid].last_failed_login = users[req[c].uid].last_failed_login
            /\ users'[req[c].uid].is_locked = users[req[c].uid].is_locked
            /\ users'[req[c].uid].locked_at = users[req[c].uid].locked_at
            /\ users' = users]_vars

C27_Witness ==
    /\ lastResp.route = "login"
    /\ lastResp.message = MsgLocked
    /\ lastResp.uid # NoUser
    /\ users[lastResp.uid].is_locked
    /\ users[lastResp.uid].failed_login_attempts = ACCOUNT_LOCKOUT_ATTEMPTS
    /\ now - users[lastResp.uid].locked_at = PeriodUnits - 1

\* C30: a login attempt made once the period has elapsed since the lock
\* timestamp ends the lockout: with the correct password it is answered with
\* the redirect and the client's session carries the account; with a wrong
\* password it is answered "invalid" and the account is unlocked with its
\* counter at exactly 1, that attempt being the first of T.
C30_LockoutEnds ==
    [][\A c \in Clients :
         (req[c].unlocked /\ req'[c].pc = "idle")
         => /\ ~users'[req[c].uid].is_locked
            /\ users'[req[c].uid].locked_at = NoTime
            /\ IF req[c].password = GoodPassword
               THEN /\ lastResp'.status = 302
                    /\ session'[c] = req[c].uid
                    /\ users'[req[c].uid].failed_login_attempts = 0
               ELSE /\ lastResp'.message = MsgInvalid
                    /\ session'[c] = NoUser
                    /\ users'[req[c].uid].failed_login_attempts = 1
                    /\ fails'[req[c].uid] = 1]_vars

C30_Witness ==
    /\ lastResp.route = "login"
    /\ lastResp.unlocked
    /\ lastResp.password # GoodPassword
    /\ lastResp.message = MsgInvalid
    /\ ~users[lastResp.uid].is_locked
    /\ users[lastResp.uid].failed_login_attempts = 1
    /\ now >= PeriodUnits

(* ------------------------------------------------------------------ *)
(* Accounts                                                            *)
(* ------------------------------------------------------------------ *)

\* C22 as claimed: after any sequence of registrations and email changes no
\* two accounts have emails that are equal ignoring case, and every stored
\* email is in lowercase form.
C22_EmailsUniqueLowercase ==
    /\ \A u, v \in DOMAIN users :
          u # v => Lower(users[u].email) # Lower(users[v].email)
    /\ \A u \in DOMAIN users : users[u].email = Lower(users[u].email)

\* C25 as claimed: with no invite code configured, registrations, however
\* they interleave, leave at most one Admin account.
C25_AtMostOneAdmin == Cardinality(Admins) <= 1

====
